---- MODULE Spec2Model ----
(***************************************************************************)
(* PyCoronaData: the derivation pipeline of pycoronadata/core.py            *)
(* (CoronaData, GeoCoronaData, PersistantGeoCoronaData) as a state machine. *)
(* A DataFrame is a record [cols, rows]: the set of its column names and    *)
(* the sequence of its rows (records).  A call's outcome is a record        *)
(* [ok, error, df]: the returned DataFrame, or the exception raised.        *)
(***************************************************************************)
EXTENDS Integers, Sequences, FiniteSets, TLC

VARIABLES
    feed,   \* the two time series the remote feeds serve (the raw records)
    cls,    \* the class of the Dataset object
    pc,     \* "new" before the constructor has run, "ready" between calls,
            \* "returned" while the caller holds the outcome of a call
    pick,   \* the unique_coor dict generate_cdf built at load
    initRtime,  \* the recovery time the constructor was given
    initHead,   \* the row limit the constructor was given
    cdf,    \* self._cdf, the Dataset's table
    last,   \* the last call made on the Dataset and its outcome
    disk,   \* the content of the file at fname, or NoFile
    age     \* the time since the file at fname was last written (now - mtime)

vars == <<feed, cls, pc, pick, initRtime, initHead, cdf, last, disk, age>>

-----------------------------------------------------------------------------
(* Bounds of the model *)

NDays == 2

MaxCount == 2

MaxHead == 1

MaxRTime == 1

MaxAge == 2

(* Program constants *)

DefaultRTime == 14

(* WatchFile.default_utime, in minutes *)
UTime == 1

-----------------------------------------------------------------------------
(* Generic helpers *)

Range(s) == {s[i] : i \in DOMAIN s}

SetMax(S) == CHOOSE x \in S : \A y \in S : y <= x

SetMin(S) == CHOOSE x \in S : \A y \in S : x <= y

RECURSIVE SumCol(_, _)
SumCol(rows, c) ==
    IF rows = <<>> THEN 0 ELSE Head(rows)[c] + SumCol(Tail(rows), c)

RECURSIVE Flatten(_)
Flatten(ss) == IF ss = <<>> THEN <<>> ELSE Head(ss) \o Flatten(Tail(ss))

RECURSIVE GCD(_, _)
GCD(a, b) == IF b = 0 THEN a ELSE GCD(b, a % b)

Abs(n) == IF n < 0 THEN -n ELSE n

Sign(n) == IF n > 0 THEN 1 ELSE IF n < 0 THEN -1 ELSE 0

(* Lexicographic order of the strings the model uses (Python's str order). *)
NameOrder ==
    << "", "A", "AAA", "B", "BBB", "C", "CCC", "K1", "K2", "Lat", "Recovered",
       "S1", "S2", "S3", "U1", "U2", "W1", "W2", "X", "Z" >>

Rank(s) == CHOOSE i \in DOMAIN NameOrder : NameOrder[i] = s

(* A set as the sequence sorted by before, a strict total order given as    *)
(* the set of its pairs <<smaller, larger>>.                                *)
SetToSortedSeq(S, before) ==
    LET n == Cardinality(S)
    IN  [i \in 1..n |-> CHOOSE x \in S : Cardinality({y \in S : <<y, x>> \in before}) = i - 1]

(* The position of a cell among the values of its column: dates by day,     *)
(* report days by number, names as strings.                                 *)
SortKey(c, v) ==
    IF c = "Date" THEN v.ord ELSE IF c = "RepDays" THEN v ELSE Rank(v)

(* Row a sorts before row b on the columns order, the first deciding first. *)
LexBefore(order, a, b) ==
    \E i \in DOMAIN order :
        /\ SortKey(order[i], a[order[i]]) < SortKey(order[i], b[order[i]])
        /\ \A j \in 1..(i - 1) : a[order[j]] = b[order[j]]

-----------------------------------------------------------------------------
(* Floating point values: den > 0 is the rational num/den in lowest terms;  *)
(* den = 0 is inf (num = 1), -inf (num = -1) or NaN (num = 0).              *)

NaNF == [num |-> 0, den |-> 0]

InfF == [num |-> 1, den |-> 0]

ZeroF == [num |-> 0, den |-> 1]

(* numpy true division of two integer columns: x/0 is +-inf, 0/0 is NaN *)
Div(n, d) ==
    IF d = 0 THEN [num |-> Sign(n), den |-> 0]
    ELSE LET g == GCD(Abs(n), Abs(d))
         IN  [num |-> (Sign(d) * n) \div g, den |-> Abs(d) \div g]

(* Series.fillna(0) on a float column *)
FillNaF(x) == IF x = NaNF THEN ZeroF ELSE x

(* A nullable integer cell (the float column a left merge makes): <<>> is NaN *)
NullSub(x, d) == IF x = <<>> THEN <<>> ELSE <<x[1] - d>>

(* Series.fillna(v).astype(int) *)
FillNa(x, v) == IF x = <<>> THEN v ELSE x[1]

-----------------------------------------------------------------------------
(* Dates.  A Date cell is a string of the feed ("1/22/20") or a            *)
(* datetime.date; ord is the day it denotes.                                *)

StrDate(n) == [fmt |-> "str", ord |-> n]

PyDate(n) == [fmt |-> "date", ord |-> n]

(* pd.to_datetime(x).dt.date *)
to_date(x) == PyDate(x.ord)

(* The date label of the i-th date column of the feeds *)
FeedDate(i) == 21 + i

-----------------------------------------------------------------------------
(* Outcomes and DataFrames *)

EmptyDF == [cols |-> {}, rows |-> <<>>]

(* os.path.isfile(fname) is False *)
NoFile == [cols |-> {"nofile"}, rows |-> <<>>]

Ok(df) == [ok |-> TRUE, error |-> "", df |-> df]

Raise(e) == [ok |-> FALSE, error |-> e, df |-> EmptyDF]

-----------------------------------------------------------------------------
(* Geometry reference data (the GeoDataFrame), in file order.  A polygon is *)
(* the set of the (longitude, latitude) points it contains; A and B overlap *)
(* at (1, 0), and (4, 0) lies in no polygon.                                *)

GDF ==
    << [Country |-> "A", ADM0_A3 |-> "AAA", SubRegion |-> "S1", REGION_WB |-> "W1",
        REGION_UN |-> "U1", Continent |-> "K1", PopSize |-> 100,
        geometry |-> {<<0, 0>>, <<1, 0>>}],
       [Country |-> "B", ADM0_A3 |-> "BBB", SubRegion |-> "S2", REGION_WB |-> "W1",
        REGION_UN |-> "U1", Continent |-> "K1", PopSize |-> 200,
        geometry |-> {<<1, 0>>, <<2, 0>>}],
       [Country |-> "C", ADM0_A3 |-> "CCC", SubRegion |-> "S3", REGION_WB |-> "W2",
        REGION_UN |-> "U2", Continent |-> "K2", PopSize |-> 50,
        geometry |-> {<<3, 0>>}] >>

GEOCOLS == {"Country", "Continent", "SubRegion", "REGION_WB", "REGION_UN", "ADM0_A3"}

(* GeoCoronaData.order_cdf: the columns a returned table may carry *)
OrderColumns ==
    {"Country", "ADM0_A3", "SubRegion", "REGION_WB", "Continent", "PopSize", "Date",
     "RepDays", "Confirmed", "Deaths", "Recovered", "Active", "CODay", "REDay",
     "DEDay", "LRate", "PrcCont", "CO10K", "DE10K", "RE10K", "AC10K"}

(* the missing value np.nan as a country name *)
NoCountry == "nan"

(* shapely: polygon.contains(Point(lon, lat)) *)
Contains(polygone, lon, lat) == <<lon, lat>> \in polygone

(* The lookup with the test of the guess left out *)
find_country_first(gdfd, lon, lat, guess) ==
    LET hit == {i \in DOMAIN gdfd : Contains(gdfd[i].geometry, lon, lat)}
    IN  IF hit = {} THEN NoCountry ELSE gdfd[SetMin(hit)].Country

(* CoronaData.find_country_lon_lat over gdfd, the {country: polygon} dict  *)
(* in insertion order (a sequence of [Country, geometry]).                  *)
find_country_lon_lat(gdfd, lon, lat, guess) ==
    LET hit == {i \in DOMAIN gdfd : Contains(gdfd[i].geometry, lon, lat)}
    IN  IF \E i \in DOMAIN gdfd : gdfd[i].Country = guess /\ i \in hit
        THEN guess
        ELSE IF hit = {} THEN NoCountry ELSE gdfd[SetMin(hit)].Country

-----------------------------------------------------------------------------
(* The feeds: one location per line of the two CSV files (same lines in     *)
(* both), with its cumulative Confirmed and Deaths per date column.         *)

Series == {s \in [1..NDays -> 0..MaxCount] : \A i \in 1..(NDays - 1) : s[i] <= s[i + 1]}

Loc(prov, name, lon, lat, co, de) ==
    [Province |-> prov, CountryRegion |-> name, Long |-> lon, Lat |-> lat,
     Confirmed |-> co, Deaths |-> de]

Places ==
    { <<"", "A", 0>>, <<"", "X", 1>>, <<"", "B", 1>>, <<"", "X", 4>>,
      <<"Recovered", "A", 0>>, <<"", "X", 3>>, <<"", "B", 4>> }

Ramp == [i \in 1..NDays |-> IF i = 1 THEN 0 ELSE 1]

Flat == [i \in 1..NDays |-> 1]

(* location A with every cumulative series, beside a fixed location B *)
SeriesFeeds ==
    { << Loc("", "A", 0, 0, co, de), Loc("", "B", 2, 0, Flat, Ramp) >> :
        co \in Series, de \in Series }

NextPlaces == { <<"", "A", 0>>, <<"", "B", 1>>, <<"", "X", 4>> }

(* a location at every place beside one at a second place, with fixed series *)
PlaceFeeds ==
    { << Loc(p[1], p[2], p[3], 0, Ramp, Ramp), Loc(q[1], q[2], q[3], 0, Flat, Ramp) >> :
        p \in Places, q \in NextPlaces }

(* the two scenarios of the specification's section 8 *)
ScenarioLag == << Loc("", "A", 0, 0, <<10, 15>>, <<0, 2>>) >>

ScenarioTwo ==
    << Loc("", "A", 0, 0, <<10, 15>>, <<1, 1>>), Loc("", "B", 2, 0, <<5, 5>>, <<0, 0>>) >>

Feeds == SeriesFeeds \cup PlaceFeeds \cup {ScenarioLag, ScenarioTwo}

-----------------------------------------------------------------------------
(* Data generation *)

With(row, k, v) == [c \in (DOMAIN row) \cup {k} |-> IF c = k THEN v ELSE row[c]]

Without(row, ks) == [c \in (DOMAIN row) \ ks |-> row[c]]

(* DataFrame.merge(right, on=on, how="left"): every left row with each of   *)
(* its matches in the right table, or with none (<<>>).                     *)
LeftMerge(lrows, rrows, on) ==
    Flatten([i \in DOMAIN lrows |->
        LET m == SelectSeq(rrows, LAMBDA r : \A k \in on : r[k] = lrows[i][k])
        IN  IF m = <<>> THEN << <<lrows[i], <<>> >> >>
            ELSE [j \in DOMAIN m |-> <<lrows[i], <<m[j]>> >>]])

(* DataFrame.groupby(keys)[columns].sum().reset_index(): one row per key    *)
(* present, sorted on the key columns in their order.                       *)
GroupSum(rows, order, columns) ==
    LET keys == Range(order)
        ks == {[k \in keys |-> r[k]] : r \in Range(rows)}
        sorted == SetToSortedSeq(ks, {p \in ks \X ks : LexBefore(order, p[1], p[2])})
    IN  [i \in DOMAIN sorted |->
            LET members == SelectSeq(rows, LAMBDA r : \A k \in keys : r[k] = sorted[i][k])
            IN  [c \in keys \cup columns |->
                    IF c \in keys THEN sorted[i][c] ELSE SumCol(members, c)]]

(* CoronaData.repDays *)
repDays(days) ==
    LET d == [i \in DOMAIN days |-> to_date(days[i])]
    IN  [i \in DOMAIN d |-> d[i].ord - SetMin({d[j].ord : j \in DOMAIN d}) + 1]

(* load_from_time_serie (pd.melt) and corona_data_from_time_series (merge   *)
(* of the two melted feeds on their five key columns)                       *)
corona_data_from_time_series(f) ==
    IF f = <<>> THEN <<>>
    ELSE Flatten([j \in DOMAIN f[1].Confirmed |->
            [i \in DOMAIN f |->
                [Province |-> f[i].Province, CountryRegion |-> f[i].CountryRegion,
                 Lat |-> f[i].Lat, Long |-> f[i].Long, Date |-> StrDate(FeedDate(j)),
                 Confirmed |-> f[i].Confirmed[j], Deaths |-> f[i].Deaths[j]]]])

manual_correction(rows) == SelectSeq(rows, LAMBDA r : r.Province # "Recovered")

(* The rows generate_cdf resolves: corrected, and without the all-zero rows *)
RawRows(f) ==
    SelectSeq(manual_correction(corona_data_from_time_series(f)),
              LAMBDA r : r.Confirmed + r.Deaths # 0)

gdfd == [i \in DOMAIN GDF |-> [Country |-> GDF[i].Country, geometry |-> GDF[i].geometry]]

cnames == {GDF[i].Country : i \in DOMAIN GDF}

(* generate_cdf, lines 387-389: the dicts the comprehension can build.  It  *)
(* is keyed by (Long, Lat) alone and filled from a set of (Long, Lat, name) *)
(* triples, so of the triples sharing a coordinate the one iterated last    *)
(* (an order the hash seed decides) gives the entry.                        *)
UniqueCoors(rows) ==
    LET triples == {<<r.Long, r.Lat, r.CountryRegion>> : r \in Range(rows)}
        coords == {<<t[1], t[2]>> : t \in triples}
    IN  {uc \in [coords -> cnames \cup {NoCountry}] :
            \A c \in coords : \E t \in triples :
                /\ <<t[1], t[2]>> = c
                /\ uc[c] = find_country_lon_lat(gdfd, t[1], t[2], t[3])}

GCountryByCoordinate(r, uc) == uc[<<r.Long, r.Lat>>]

(* generate_cdf, lines 392-397 *)
GCountry(r, uc) ==
    IF r.CountryRegion \in cnames THEN r.CountryRegion ELSE uc[<<r.Long, r.Lat>>]

BaseColumns ==
    {"Country", "Date", "Confirmed", "Deaths", "PopSize", "Continent", "SubRegion",
     "REGION_WB", "ADM0_A3", "RepDays"}

(* GeoCoronaData.generate_cdf with unique_coor = uc *)
generate_cdf(f, uc) ==
    LET rows == RawRows(f)
        named == [i \in DOMAIN rows |->
                    [Country |-> GCountry(rows[i], uc), Date |-> rows[i].Date,
                     Confirmed |-> rows[i].Confirmed, Deaths |-> rows[i].Deaths]]
        (* groupby drops the rows whose key is missing *)
        found == SelectSeq(named, LAMBDA r : r.Country # NoCountry)
        grouped == GroupSum(found, <<"Country", "Date">>, {"Confirmed", "Deaths"})
        rep == repDays([i \in DOMAIN grouped |-> grouped[i].Date])
        info(c) == GDF[CHOOSE i \in DOMAIN GDF : GDF[i].Country = c]
    IN  [cols |-> BaseColumns,
         rows |-> [i \in DOMAIN grouped |->
            [Country |-> grouped[i].Country, Date |-> grouped[i].Date,
             Confirmed |-> grouped[i].Confirmed, Deaths |-> grouped[i].Deaths,
             PopSize |-> info(grouped[i].Country).PopSize,
             Continent |-> info(grouped[i].Country).Continent,
             SubRegion |-> info(grouped[i].Country).SubRegion,
             REGION_WB |-> info(grouped[i].Country).REGION_WB,
             ADM0_A3 |-> info(grouped[i].Country).ADM0_A3,
             RepDays |-> rep[i]]]]

-----------------------------------------------------------------------------
(* Derivation *)

RecoveredClamped(lagged, deaths) ==
    IF FillNa(NullSub(lagged, deaths), 0) < 0 THEN 0 ELSE FillNa(NullSub(lagged, deaths), 0)

RecoveredFilledFirst(lagged, deaths) == FillNa(lagged, 0) - deaths

(* lines 198-199: the merged cell minus Deaths, then fillna(0).astype(int)  *)
RecoveredOf(lagged, deaths) == FillNa(NullSub(lagged, deaths), 0)

ActiveOfAdded(confirmed, deaths, recovered) == confirmed - deaths + recovered

(* line 207 *)
ActiveOf(confirmed, deaths, recovered) == confirmed - (deaths + recovered)

(* CoronaData.add_recovery_time_cdf with gb = ["Country"].  The merge with  *)
(* the shifted copy names its column "Recovered": when the table already    *)
(* has one, pandas suffixes both ("Recovered_x", "Recovered_y") and line    *)
(* 198 reads a column that does not exist.                                  *)
add_recovery_time_cdf(df, rtime) ==
    LET dated == [i \in DOMAIN df.rows |->
                    [df.rows[i] EXCEPT !.Date = to_date(df.rows[i].Date)]]
        subdf == [i \in DOMAIN dated |->
                    [Country |-> dated[i].Country, RepDays |-> dated[i].RepDays + rtime,
                     Recovered |-> dated[i].Confirmed]]
        merged == LeftMerge(dated, subdf, {"Country", "RepDays"})
        lagged(m) == IF m[2] = <<>> THEN <<>> ELSE <<m[2][1].Recovered>>
        recovered(m) == RecoveredOf(lagged(m), m[1].Deaths)
    IN  IF "Recovered" \in df.cols THEN Raise("KeyError")
        ELSE Ok([cols |-> df.cols \cup {"Recovered", "Active"},
                 rows |-> [i \in DOMAIN merged |->
                    With(With(merged[i][1], "Recovered", recovered(merged[i])),
                         "Active",
                         ActiveOf(merged[i][1].Confirmed, merged[i][1].Deaths,
                                  recovered(merged[i])))]])

DailyKeysNoGroup == {"RepDays"}

(* line 218: mcolumns = self.gb + ["RepDays"] *)
DailyKeys == {"Country", "RepDays"}

(* CoronaData.add_daily_cases_cdf with gb = ["Country"] *)
add_daily_cases_cdf(df) ==
    LET subdf == [i \in DOMAIN df.rows |->
                    [df.rows[i] EXCEPT !.RepDays = df.rows[i].RepDays + 1]]
        merged == LeftMerge(df.rows, subdf, DailyKeys)
        old(m, c) == FillNa(IF m[2] = <<>> THEN <<>> ELSE <<m[2][1][c]>>, 0)
    IN  [cols |-> df.cols \cup {"CODay", "REDay", "DEDay"},
         rows |-> [i \in DOMAIN merged |->
            With(With(With(merged[i][1],
                "CODay", merged[i][1].Confirmed - old(merged[i], "Confirmed")),
                "REDay", merged[i][1].Recovered - old(merged[i], "Recovered")),
                "DEDay", merged[i][1].Deaths - old(merged[i], "Deaths"))]]

(* The lethality rate of one row: lines 232-233 *)
LRateOf(deaths, recovered) == FillNaF(Div(deaths, deaths + recovered))

(* CoronaData.add_stats_cdf *)
add_stats_cdf(df) ==
    [cols |-> df.cols \cup {"LRate"},
     rows |-> [i \in DOMAIN df.rows |->
        With(df.rows[i], "LRate", LRateOf(df.rows[i].Deaths, df.rows[i].Recovered))]]

(* GeoCoronaData.add_PopInfo_cdf *)
add_PopInfo_cdf(df) ==
    [cols |-> df.cols \cup {"PrcCont", "CO10K", "DE10K", "RE10K", "AC10K"},
     rows |-> [i \in DOMAIN df.rows |->
        LET r == df.rows[i]
        IN  [c \in (DOMAIN r) \cup {"PrcCont", "CO10K", "DE10K", "RE10K", "AC10K"} |->
                CASE c = "PrcCont" -> Div(r.Confirmed + r.Deaths + r.Recovered, r.PopSize)
                  [] c = "CO10K" -> Div(r.Confirmed * 10000, r.PopSize)
                  [] c = "DE10K" -> Div(r.Deaths * 10000, r.PopSize)
                  [] c = "RE10K" -> Div(r.Recovered * 10000, r.PopSize)
                  [] c = "AC10K" -> Div(r.Active * 10000, r.PopSize)
                  [] OTHER -> r[c]]]]

(* GeoCoronaData.order_cdf: order.index(name) raises for an unlisted column *)
order_cdf(df) == IF df.cols \subseteq OrderColumns THEN Ok(df) ELSE Raise("ValueError")

(* GeoCoronaData.setup_cdf over CoronaData.setup_cdf *)
setup_cdf(df, rtime) ==
    LET rec == add_recovery_time_cdf(df, rtime)
    IN  IF ~rec.ok THEN rec
        ELSE order_cdf(add_PopInfo_cdf(add_stats_cdf(add_daily_cases_cdf(rec.df))))

(* DataFrame.head(n), n > 0 *)
HeadRows(df, n) ==
    [cols |-> df.cols, rows |-> SubSeq(df.rows, 1, IF n < Len(df.rows) THEN n ELSE Len(df.rows))]

(* CoronaData.load_cdf *)
load_cdf(f, uc, rtime, n) ==
    LET out == setup_cdf(generate_cdf(f, uc), rtime)
    IN  IF out.ok /\ n # 0 THEN Ok(HeadRows(out.df, n)) ELSE out

-----------------------------------------------------------------------------
(* The persisted file *)

(* DataFrame.to_csv(fname, index=False): the dates are written as text *)
to_csv(df) ==
    [cols |-> df.cols,
     rows |-> [i \in DOMAIN df.rows |->
                [df.rows[i] EXCEPT !.Date = StrDate(df.rows[i].Date.ord)]]]

(* pd.read_csv(fname) and the conversion of its Date column, lines 576-577 *)
read_csv(file) ==
    [cols |-> file.cols,
     rows |-> [i \in DOMAIN file.rows |->
                [file.rows[i] EXCEPT !.Date = to_date(file.rows[i].Date)]]]

(* PersistantGeoCoronaData.load_cdf with a path given as fname *)
PersistantLoadCdf(file, f, uc, rtime, n) ==
    IF file # NoFile THEN Ok(read_csv(file)) ELSE load_cdf(f, uc, rtime, n)

(* WatchFile.check_update(notfound=True) *)
check_update(file, elapsed) == IF file = NoFile THEN TRUE ELSE elapsed > UTime

(* The table after a failed recompute, had it been installed stage by stage *)
UpdateTableEager(old, out) == out.df

(* self._cdf after PersistantGeoCoronaData.update_cdf: assigned at line 595 *)
(* once generate_cdf and setup_cdf have returned                            *)
UpdateTable(old, out) == IF out.ok THEN out.df ELSE old

(* update_cdf, lines 593-594; fetched is whether the remote feeds answered  *)
update_cdf(f, uc, rtime, fetched) ==
    IF ~fetched THEN Raise("URLError") ELSE setup_cdf(generate_cdf(f, uc), rtime)

-----------------------------------------------------------------------------
(* Queries *)

MetricColumns == {"Confirmed", "Deaths", "Recovered", "CODay", "REDay", "DEDay", "Active"}

FloatColumns == {"LRate", "PrcCont", "CO10K", "DE10K", "RE10K", "AC10K"}

(* A day argument: None, a report day (int) or a datetime.date *)
NoDay == [kind |-> "none", v |-> 0]

IntDay(n) == [kind |-> "int", v |-> n]

DateDay(n) == [kind |-> "date", v |-> n]

(* Python truthiness of the day argument: None and 0 are false *)
Truthy(day) == day.kind = "date" \/ (day.kind = "int" /\ day.v # 0)

(* The cell value a day argument is compared with *)
DayValue(day) == IF day.kind = "date" THEN PyDate(day.v) ELSE day.v

(* self.cdf[column].max() *)
ColumnMax(df, column) ==
    IF column = "RepDays"
    THEN IntDay(SetMax({df.rows[i].RepDays : i \in DOMAIN df.rows}))
    ELSE DateDay(SetMax({df.rows[i].Date.ord : i \in DOMAIN df.rows}))

(* CoronaData.days(): sorted(self.cdf["Date"].unique()) *)
days(df) ==
    LET ds == {df.rows[i].Date : i \in DOMAIN df.rows}
    IN  SetToSortedSeq(ds, {p \in ds \X ds : p[1].ord < p[2].ord})

GroupPopFirst(column) ==
    LET ks == {GDF[i][column] : i \in DOMAIN GDF}
        sorted == SetToSortedSeq(ks, {p \in ks \X ks : Rank(p[1]) < Rank(p[2])})
    IN  [i \in DOMAIN sorted |->
            [key |-> sorted[i],
             PopSize |-> SelectSeq(GDF, LAMBDA g : g[column] = sorted[i])[1].PopSize]]

(* self.gdf.groupby(column)["PopSize"].sum() *)
GroupPop(column) ==
    LET ks == {GDF[i][column] : i \in DOMAIN GDF}
        sorted == SetToSortedSeq(ks, {p \in ks \X ks : Rank(p[1]) < Rank(p[2])})
    IN  [i \in DOMAIN sorted |->
            [key |-> sorted[i],
             PopSize |-> SumCol(SelectSeq(GDF, LAMBDA g : g[column] = sorted[i]), "PopSize")]]

(* The grouping with the metrics of a group's first row in place of sums *)
GroupByGeoDayFirst(rows, column) ==
    LET sums == GroupSum(rows, <<column, "Date", "RepDays">>, MetricColumns)
    IN  [i \in DOMAIN sums |->
            [c \in DOMAIN sums[i] |->
                IF c \in MetricColumns
                THEN SelectSeq(rows, LAMBDA r :
                        \A k \in {column, "Date", "RepDays"} : r[k] = sums[i][k])[1][c]
                ELSE sums[i][c]]]

(* subdf.groupby([column, "Date", "RepDays"])[columns].sum().reset_index() *)
GroupByGeoDay(rows, column) ==
    GroupSum(rows, <<column, "Date", "RepDays">>, MetricColumns)

(* GeoCoronaData.fill_subdf_geo *)
fill_subdf_geo(subdf, column, filler) ==
    IF column \notin GEOCOLS THEN Raise("ValueError")
    ELSE IF column \notin subdf.cols THEN Raise("KeyError")
    ELSE
      LET pops == GroupPop(column)
          gdf == [i \in DOMAIN pops |->
                    With(With(With([PopSize |-> pops[i].PopSize], column, pops[i].key),
                         "Date", filler.Date), "RepDays", filler.RepDays)]
          sums == GroupByGeoDay(subdf.rows, column)
          merged == LeftMerge(gdf, sums, {column, "Date", "RepDays"})
          filled == [i \in DOMAIN merged |->
                        [c \in (DOMAIN merged[i][1]) \cup MetricColumns |->
                            IF c \in MetricColumns
                            THEN FillNa(IF merged[i][2] = <<>> THEN <<>>
                                        ELSE <<merged[i][2][1][c]>>, 0)
                            ELSE merged[i][1][c]]]
      IN  Ok(add_PopInfo_cdf(add_stats_cdf(
            [cols |-> {column, "PopSize", "Date", "RepDays"} \cup MetricColumns,
             rows |-> filled])))

(* GeoCoronaData.data_from_day *)
data_from_day(df, day, report, fill, geocolumn) ==
    LET column == IF report THEN "RepDays" ELSE "Date"
        wanted == IF Truthy(day) \/ df.rows = <<>> THEN day ELSE ColumnMax(df, column)
        sub == [cols |-> df.cols,
                rows |-> SelectSeq(df.rows, LAMBDA r : r[column] = DayValue(wanted))]
        filler == [Date |-> sub.rows[1].Date, RepDays |-> sub.rows[1].RepDays]
        filled == fill_subdf_geo(sub, geocolumn, filler)
    IN  IF sub.rows = <<>> THEN Raise("ValueError")
        ELSE IF fill
             THEN (IF filled.ok THEN order_cdf(filled.df) ELSE filled)
             ELSE order_cdf(sub)

(* data_from_geocol, lines 516-526: the rows fill adds for select *)
FillDays(df, sub, geocolumn) ==
    LET ds == days(df)
        rep == repDays(ds)
    IN  [i \in DOMAIN ds |->
            [c \in sub.cols |->
                CASE c = "Date" -> ds[i]
                  [] c = "RepDays" -> rep[i]
                  [] c = geocolumn -> sub.rows[1][geocolumn]
                  [] c = "PopSize" -> sub.rows[1].PopSize
                  [] c \in FloatColumns -> ZeroF
                  [] OTHER -> 0]]

(* DataFrame.drop_duplicates("RepDays"): the first row of each RepDays *)
DropDuplicates(rows) ==
    SelectSeq([i \in DOMAIN rows |->
                 [row |-> rows[i],
                  first |-> \A j \in 1..(i - 1) : rows[j].RepDays # rows[i].RepDays]],
              LAMBDA x : x.first)

(* GeoCoronaData.data_from_geocol *)
data_from_geocol(df, select, geocolumn, fill) ==
    IF geocolumn \notin GEOCOLS THEN Raise("ValueError")
    ELSE IF geocolumn \notin df.cols THEN Raise("KeyError")
    ELSE
      LET found == SelectSeq(df.rows, LAMBDA r : r[geocolumn] = select)
          pops == GroupPop(geocolumn)
          sums == GroupByGeoDay(found, geocolumn)
          mapper(k) == pops[CHOOSE i \in DOMAIN pops : pops[i].key = k].PopSize
          grouped == add_PopInfo_cdf(add_stats_cdf(
                [cols |-> {geocolumn, "Date", "RepDays", "PopSize"} \cup MetricColumns,
                 rows |-> [i \in DOMAIN sums |->
                            With(sums[i], "PopSize", mapper(sums[i][geocolumn]))]]))
          others == {"Country", "Continent", "SubRegion", "REGION_WB", "ADM0_A3"}
                        \ {geocolumn}
          plain == [cols |-> df.cols \ others,
                    rows |-> [i \in DOMAIN found |-> Without(found[i], others)]]
          sub == IF geocolumn \notin {"Country", "ADM0_A3"} THEN grouped ELSE plain
          both == DropDuplicates(sub.rows \o FillDays(df, sub, geocolumn))
          sorted == SortSeq([i \in DOMAIN both |-> both[i].row],
                            LAMBDA a, b : a.RepDays < b.RepDays)
      IN  IF found = <<>> THEN Ok(EmptyDF)
          ELSE IF fill THEN order_cdf([cols |-> sub.cols, rows |-> sorted])
          ELSE order_cdf(sub)

(* GeoCoronaData.make_geo_mapper on self.gdf: the polygon of a country, the *)
(* union of the polygons of a group                                         *)
make_geo_mapper(column) ==
    [v \in {GDF[i][column] : i \in DOMAIN GDF} |->
        UNION {GDF[i].geometry : i \in {j \in DOMAIN GDF : GDF[j][column] = v}}]

(* GeoCoronaData.add_geom.  The message of its ValueError names geocol, a   *)
(* name that is bound nowhere: building it raises NameError.                *)
add_geom(df, column) ==
    IF column \notin GEOCOLS THEN Raise("NameError")
    ELSE IF column \notin df.cols THEN Raise("KeyError")
    ELSE
      LET mapper == make_geo_mapper(column)
      IN  Ok([cols |-> df.cols \cup {"geometry"},
              rows |-> [i \in DOMAIN df.rows |->
                  With(df.rows[i], "geometry",
                       IF df.rows[i][column] \in DOMAIN mapper
                       THEN mapper[df.rows[i][column]] ELSE NoCountry)]])

-----------------------------------------------------------------------------
(* The state machine *)

Classes == {"GeoCoronaData", "PersistantGeoCoronaData"}

RTimes == (0..MaxRTime) \cup {DefaultRTime}

Heads == 0..MaxHead

GeoArgs == GEOCOLS \cup {"Lat"}

(* data_from_day reads geocolumn only to fill: without fill it is given its *)
(* default or a column outside GEOCOLS                                      *)
DayGeoArgs(fill) == IF fill THEN GeoArgs ELSE {"Country", "Lat"}

(* The values asked of a column: those the reference data holds in it, and *)
(* one it does not.                                                         *)
SelectArgs(geocolumn) ==
    (IF geocolumn \in GEOCOLS THEN {GDF[i][geocolumn] : i \in DOMAIN GDF} ELSE {}) \cup {"Z"}

DayArgs(report) ==
    {NoDay} \cup
        (IF report THEN {IntDay(n) : n \in 0..(NDays + 1)}
         ELSE {DateDay(FeedDate(n)) : n \in 1..(NDays + 1)})

Call(op, day, report, fill, geocolumn, select, r, out) ==
    [op |-> op, day |-> day, report |-> report, fill |-> fill, geocolumn |-> geocolumn,
     select |-> select, rtime |-> r, out |-> out]

NoCall == Call("", NoDay, FALSE, FALSE, "", "", 0, Ok(EmptyDF))

Init ==
    /\ feed \in Feeds
    /\ cls \in Classes
    /\ pc = "new"
    /\ pick = << >>
    /\ initRtime = 0
    /\ initHead = 0
    /\ cdf = EmptyDF
    /\ last = NoCall
    /\ disk = NoFile
    /\ age = 0

(* GeoCoronaData.__init__ / PersistantGeoCoronaData.__init__ (fname a      *)
(* path): self._cdf = self.load_cdf(rtime, head)                            *)
Construct(r, n) ==
    /\ pc = "new"
    /\ \E uc \in IF cls = "PersistantGeoCoronaData" /\ disk # NoFile THEN {<< >>}
                 ELSE UniqueCoors(RawRows(feed)) :
        LET out == IF cls = "PersistantGeoCoronaData"
                   THEN PersistantLoadCdf(disk, feed, uc, r, n)
                   ELSE load_cdf(feed, uc, r, n)
        IN  /\ out.ok
            /\ pick' = uc
            /\ cdf' = out.df
            /\ last' = Call("__init__", NoDay, FALSE, FALSE, "", "", r, Ok(EmptyDF))
    /\ initRtime' = r
    /\ initHead' = n
    /\ pc' = "returned"
    /\ UNCHANGED <<disk, age, feed, cls>>

DataFromDay(day, report, fill, geocolumn) ==
    /\ pc = "ready"
    /\ last' = Call("data_from_day", day, report, fill, geocolumn, "", 0,
                    data_from_day(cdf, day, report, fill, geocolumn))
    /\ pc' = "returned"
    /\ UNCHANGED <<disk, age, feed, cls, pick, initRtime, initHead, cdf>>

DataFromGeocol(select, geocolumn, fill) ==
    /\ pc = "ready"
    /\ last' = Call("data_from_geocol", NoDay, FALSE, fill, geocolumn, select, 0,
                    data_from_geocol(cdf, select, geocolumn, fill))
    /\ pc' = "returned"
    /\ UNCHANGED <<disk, age, feed, cls, pick, initRtime, initHead, cdf>>

(* GeoCoronaData.add_geom on a copy of the table *)
AddGeom(column) ==
    /\ pc = "ready"
    /\ last' = Call("add_geom", NoDay, FALSE, FALSE, column, "", 0, add_geom(cdf, column))
    /\ pc' = "returned"
    /\ UNCHANGED <<disk, age, feed, cls, pick, initRtime, initHead, cdf>>

(* add_recovery_time_cdf, line 184, assigns the Date column of the table it *)
(* is given: set_recovery_time gives it self.cdf itself.                    *)
DateAssigned(df) ==
    [cols |-> df.cols,
     rows |-> [i \in DOMAIN df.rows |-> [df.rows[i] EXCEPT !.Date = to_date(df.rows[i].Date)]]]

(* CoronaData.set_recovery_time; PersistantGeoCoronaData.set_recovery_time  *)
(* first assigns self.rtime, a property without a setter (AttributeError).  *)
SetRecoveryTime(r) ==
    /\ pc = "ready"
    /\ LET out == IF cls = "PersistantGeoCoronaData" THEN Raise("AttributeError")
                  ELSE setup_cdf(cdf, r)
       IN  /\ cdf' = IF out.ok THEN out.df
                     ELSE IF cls = "PersistantGeoCoronaData" THEN cdf
                     ELSE DateAssigned(cdf)
           /\ last' = Call("set_recovery_time", NoDay, FALSE, FALSE, "", "", r,
                           [out EXCEPT !.df = EmptyDF])
    /\ pc' = "returned"
    /\ UNCHANGED <<disk, age, feed, cls, pick, initRtime, initHead>>

(* PersistantGeoCoronaData.update_cdf *)
UpdateCdf(fetched) ==
    /\ pc = "ready"
    /\ cls = "PersistantGeoCoronaData"
    /\ \E uc \in UniqueCoors(RawRows(feed)) :
        LET out == update_cdf(feed, uc, initRtime, fetched)
        IN  /\ cdf' = UpdateTable(cdf, out)
            /\ pick' = IF out.ok THEN uc ELSE pick
            /\ last' = Call("update_cdf", NoDay, FALSE, FALSE, "", "", initRtime, out)
    /\ pc' = "returned"
    /\ UNCHANGED <<disk, age, feed, cls, initRtime, initHead>>

(* PersistantGeoCoronaData.update *)
Update(fetched) ==
    /\ pc = "ready"
    /\ cls = "PersistantGeoCoronaData"
    /\ \E uc \in UniqueCoors(RawRows(feed)) :
        LET out == IF check_update(disk, age)
                   THEN update_cdf(feed, uc, initRtime, fetched)
                   ELSE Ok(cdf)
        IN  /\ cdf' = UpdateTable(cdf, out)
            /\ pick' = IF out.ok /\ check_update(disk, age) THEN uc ELSE pick
            /\ last' = Call("update", NoDay, FALSE, FALSE, "", "", initRtime,
                            [out EXCEPT !.df = EmptyDF])
    /\ pc' = "returned"
    /\ UNCHANGED <<disk, age, feed, cls, initRtime, initHead>>

(* PersistantGeoCoronaData.save *)
Save ==
    /\ pc = "ready"
    /\ cls = "PersistantGeoCoronaData"
    /\ disk' = to_csv(cdf)
    /\ age' = 0
    /\ last' = Call("save", NoDay, FALSE, FALSE, "", "", 0, Ok(EmptyDF))
    /\ pc' = "returned"
    /\ UNCHANGED <<feed, cls, pick, initRtime, initHead, cdf>>

(* A minute passes (datetime.now() against the file's mtime) *)
Tick ==
    /\ pc \in {"new", "ready"}
    /\ disk # NoFile
    /\ age < MaxAge
    /\ age' = age + 1
    /\ UNCHANGED <<feed, cls, pc, pick, initRtime, initHead, cdf, last, disk>>

(* The caller is done with the outcome of its call *)
Return ==
    /\ pc = "returned"
    /\ pc' = "ready"
    /\ last' = NoCall
    /\ UNCHANGED <<disk, age, feed, cls, pick, initRtime, initHead, cdf>>

Next ==
    \/ \E r \in RTimes, n \in Heads : Construct(r, n)
    \/ \E report \in BOOLEAN, fill \in BOOLEAN :
        \E day \in DayArgs(report), geocolumn \in DayGeoArgs(fill) :
            DataFromDay(day, report, fill, geocolumn)
    \/ \E geocolumn \in GeoArgs, fill \in BOOLEAN :
        \E select \in SelectArgs(geocolumn) : DataFromGeocol(select, geocolumn, fill)
    \/ \E r \in RTimes : SetRecoveryTime(r)
    \/ \E column \in GeoArgs : AddGeom(column)
    \/ \E fetched \in BOOLEAN : UpdateCdf(fetched)
    \/ \E fetched \in BOOLEAN : Update(fetched)
    \/ Return

Spec == Init /\ [][Next]_vars

-----------------------------------------------------------------------------
(* The persisted Dataset: PersistantGeoCoronaData built on a path that      *)
(* holds no file, or the table an earlier run saved there some minutes ago. *)

SavedFiles ==
    {to_csv(load_cdf(f, uc, DefaultRTime, 0).df) :
        f \in {ScenarioLag}, uc \in UniqueCoors(RawRows(ScenarioLag))}

PersistInit ==
    /\ feed \in PlaceFeeds \cup {ScenarioLag, ScenarioTwo}
    /\ cls = "PersistantGeoCoronaData"
    /\ pc = "new"
    /\ pick = << >>
    /\ initRtime = 0
    /\ initHead = 0
    /\ cdf = EmptyDF
    /\ last = NoCall
    /\ disk \in {NoFile} \cup SavedFiles
    /\ age \in IF disk = NoFile THEN {0} ELSE 0..MaxAge

PersistNext ==
    \/ \E r \in RTimes, n \in Heads : Construct(r, n)
    \/ \E fetched \in BOOLEAN : UpdateCdf(fetched)
    \/ \E fetched \in BOOLEAN : Update(fetched)
    \/ \E r \in RTimes : SetRecoveryTime(r)
    \/ Save
    \/ Tick
    \/ Return

SpecPersist == PersistInit /\ [][PersistNext]_vars

-----------------------------------------------------------------------------
(* find_country_lon_lat on its own: the static method called with every     *)
(* {country: polygon} dict made of the reference polygons in every          *)
(* insertion order, every point of the grid and every guess.                *)

(* guess=None, the default *)
NoGuess == "None"

FindDicts ==
    {d \in UNION {[1..n -> Range(gdfd)] : n \in 0..Len(gdfd)} :
        \A i, j \in DOMAIN d : i # j => d[i].Country # d[j].Country}

FindPoints == {<<r[3], 0>> : r \in Places} \cup {<<r[3], 1>> : r \in Places}

FindGuesses == cnames \cup {"X", NoGuess}

FindInit ==
    /\ feed = << >>
    /\ cls = "CoronaData"
    /\ pc = "ready"
    /\ pick = << >>
    /\ initRtime = 0
    /\ initHead = 0
    /\ cdf = EmptyDF
    /\ last = NoCall
    /\ disk = NoFile
    /\ age = 0

FindCountry(d, point, guess) ==
    /\ pc = "ready"
    /\ last' = [op |-> "find_country_lon_lat", gdf |-> d, lon |-> point[1],
                lat |-> point[2], guess |-> guess,
                out |-> find_country_lon_lat(d, point[1], point[2], guess)]
    /\ pc' = "returned"
    /\ UNCHANGED <<disk, age, feed, cls, pick, initRtime, initHead, cdf>>

FindNext ==
    \/ \E d \in FindDicts, point \in FindPoints, guess \in FindGuesses :
        FindCountry(d, point, guess)
    \/ Return

SpecFind == FindInit /\ [][FindNext]_vars

-----------------------------------------------------------------------------
(* Properties *)

Loaded == pc # "new"

IsQuery == last.op \in {"data_from_day", "data_from_geocol"}

TableRows == Range(cdf.rows)

ResultRows == Range(last.out.df.rows)

(* The rows of the table at group key g and report day d *)
RowsAt(g, d) == {x \in TableRows : x.Country = g /\ x.RepDays = d}

ActiveHolds(r) == r.Active = r.Confirmed - r.Deaths - r.Recovered

(* C1: every row of the derived table, and every row data_from_day or      *)
(* data_from_geocol returns (any level, filled or not), has                 *)
(* Active = Confirmed - Deaths - Recovered.                                 *)
C1_ActiveIdentity ==
    /\ \A r \in TableRows : ActiveHolds(r)
    /\ IsQuery /\ last.out.ok => \A r \in ResultRows : ActiveHolds(r)

(* C1 witness: a filled, aggregated day carries a group with recoveries and *)
(* a group with no case at all.                                             *)
C1_Witness ==
    /\ last.op = "data_from_day" /\ last.fill /\ last.out.ok
    /\ last.geocolumn = "Continent"
    /\ \E r \in ResultRows : r.Recovered > 0 /\ r.Deaths > 0
    /\ \E r \in ResultRows : r.Confirmed = 0 /\ r.Active = 0

(* C2: after the initial load with recovery time r, a row at (g, d) has     *)
(* Recovered = Confirmed at (g, d - r) minus Deaths at (g, d) when the      *)
(* table holds a row at (g, d - r), and Recovered = 0 when it does not;     *)
(* r = 14 over the two-day, two-country scenario gives Recovered = 0 and    *)
(* Active = Confirmed - Deaths on every row, and r = 1 with confirmed 10    *)
(* then 15 and deaths 0 then 2 gives Recovered = 8, Active = 5 on day 2.    *)
C2_RecoveredByLag ==
    Loaded =>
        /\ \A r \in TableRows :
            LET lag == RowsAt(r.Country, r.RepDays - initRtime)
            IN  IF lag # {} THEN \A l \in lag : r.Recovered = l.Confirmed - r.Deaths
                ELSE r.Recovered = 0
        /\ feed = ScenarioTwo /\ initRtime = DefaultRTime =>
            \A r \in TableRows : r.Recovered = 0 /\ r.Active = r.Confirmed - r.Deaths
        /\ feed = ScenarioLag /\ initRtime = 1 =>
            \A r \in TableRows : r.RepDays = 2 =>
                r.Confirmed = 15 /\ r.Recovered = 8 /\ r.Active = 5

(* C2 witness: the lag scenario is loaded in full with recovery time 1 *)
C2_Witness ==
    /\ Loaded /\ feed = ScenarioLag /\ initRtime = 1 /\ initHead = 0
    /\ \E r \in TableRows : r.RepDays = 2 /\ r.Recovered = 8

(* C3 as claimed: every row of the derived table has Recovered >= 0 *)
C3_RecoveredNonNegative == \A r \in TableRows : r.Recovered >= 0

(* C3 as amended: Recovered is not clamped.  A row at (g, d) has            *)
(* Recovered >= 0 exactly when the table holds no row at (g, d - r) or the  *)
(* Confirmed of that row is at least the Deaths at (g, d); in every case    *)
(* Recovered >= -Deaths.                                                    *)
C3_RecoveredSign ==
    Loaded =>
        \A r \in TableRows :
            LET lag == RowsAt(r.Country, r.RepDays - initRtime)
            IN  /\ r.Recovered >= 0 <=> \A l \in lag : l.Confirmed >= r.Deaths
                /\ r.Recovered >= -r.Deaths

(* C3 witness: the deaths of a day exceed the confirmed cases of the lagged *)
(* day, and the row's Recovered is negative.                                *)
C3_Witness ==
    /\ Loaded
    /\ \E r \in TableRows :
        /\ r.Recovered < 0
        /\ \E l \in RowsAt(r.Country, r.RepDays - initRtime) : l.Confirmed < r.Deaths

RateHolds(r) ==
    /\ r.LRate.den > 0 /\ 0 <= r.LRate.num /\ r.LRate.num <= r.LRate.den
    /\ r.Deaths + r.Recovered = 0 => r.LRate = ZeroF

(* C4: every row of the derived table and of every query result has LRate  *)
(* in [0, 1], and LRate = 0 whenever Deaths + Recovered = 0.                *)
C4_LRateRange ==
    /\ \A r \in TableRows : RateHolds(r)
    /\ IsQuery /\ last.out.ok => \A r \in ResultRows : RateHolds(r)

DeltaHolds(r) ==
    LET prev == RowsAt(r.Country, r.RepDays - 1)
    IN  IF prev # {}
        THEN \A p \in prev :
                /\ r.CODay = r.Confirmed - p.Confirmed
                /\ r.DEDay = r.Deaths - p.Deaths
                /\ r.REDay = r.Recovered - p.Recovered
        ELSE r.CODay = r.Confirmed /\ r.DEDay = r.Deaths /\ r.REDay = r.Recovered

(* C5: for a row at (g, d), each daily delta (CODay, DEDay, REDay) is the   *)
(* metric at (g, d) minus the metric at (g, d - 1) when the group has a row *)
(* at d - 1, and the metric at (g, d) when it has none; rows of other       *)
(* groups never contribute.                                                 *)
C5_DailyDeltas ==
    Loaded =>
        /\ \A r \in TableRows : DeltaHolds(r)
        /\ Cardinality(TableRows) = Len(cdf.rows)

(* C5 witness: one group's first row falls on a day whose eve another group *)
(* reported, and another row has a previous day to subtract.                *)
C5_Witness ==
    /\ Loaded
    /\ \E r \in TableRows, o \in TableRows :
        /\ o.Country # r.Country /\ o.RepDays = r.RepDays - 1 /\ o.Confirmed > 0
        /\ RowsAt(r.Country, r.RepDays - 1) = {}
        /\ r.CODay = r.Confirmed
    /\ \E r \in TableRows :
        /\ RowsAt(r.Country, r.RepDays - 1) # {}
        /\ r.CODay # r.Confirmed

(* C6: every set_recovery_time(r) call on a loaded Dataset completes, and   *)
(* leaves the table a fresh derivation of the same raw records with         *)
(* recovery time r would produce.                                           *)
C6_SetRecoveryTimeRecomputes ==
    last.op = "set_recovery_time" =>
        /\ last.out.ok
        /\ cdf = load_cdf(feed, pick, last.rtime, initHead).df

(* The rows of the table the day argument of the last data_from_day names *)
DayMatches ==
    {r \in TableRows : r[IF last.report THEN "RepDays" ELSE "Date"] = DayValue(last.day)}

(* C7: data_from_day fails with the not-found error (ValueError) for every  *)
(* requested day, report day 0 included, that matches no row of the table,  *)
(* and never returns rows of another day than the requested one.            *)
C7_AbsentDayNotFound ==
    last.op = "data_from_day" /\ last.day # NoDay =>
        /\ DayMatches = {} => ~last.out.ok /\ last.out.error = "ValueError"
        /\ last.out.ok /\ ~last.fill => ResultRows \subseteq DayMatches

(* The rows of the table at value v of column c on date d *)
GeoDayRows(c, v, d) == SelectSeq(cdf.rows, LAMBDA x : x[c] = v /\ x.Date = d)

(* C8: data_from_geocol(select, geocolumn, fill=true) for a value present   *)
(* in the table returns exactly one row per known day (every date of the    *)
(* table, with the report day the table gives it): the location's own       *)
(* values where it has rows, zero case metrics elsewhere; for every table   *)
(* the Dataset can hold, one cut by the head row limit included.            *)
C8_FillEveryKnownDay ==
    /\ last.op = "data_from_geocol" /\ last.fill /\ last.out.ok
    /\ last.out.df.rows # <<>>
    =>
    LET res == last.out.df.rows
        known == {<<r.Date, r.RepDays>> : r \in TableRows}
    IN  /\ Len(res) = Cardinality(known)
        /\ \A k \in known : \E j \in DOMAIN res :
            /\ res[j].Date = k[1] /\ res[j].RepDays = k[2]
            /\ \A m \in MetricColumns :
                res[j][m] = SumCol(GeoDayRows(last.geocolumn, last.select, k[1]), m)

(* The hierarchy levels of the specification's glossary *)
HierarchyLevels == {"Country", "Continent", "SubRegion", "REGION_WB", "ADM0_A3"}

(* C9: data_from_day(day, fill=true, geocolumn=L) for a day of the table    *)
(* returns exactly one row per group of the reference data at level L: the  *)
(* sums of the additive metrics of the group's rows of that day (zero when  *)
(* it has none), the summed population of the group, and the requested      *)
(* Date and RepDays.                                                        *)
C9_FillEveryGroup ==
    /\ last.op = "data_from_day" /\ last.fill /\ Truthy(last.day)
    /\ last.geocolumn \in HierarchyLevels /\ DayMatches # {}
    =>
    LET L == last.geocolumn
        res == last.out.df.rows
        groups == {GDF[i][L] : i \in DOMAIN GDF}
        members(g) == SelectSeq(cdf.rows, LAMBDA x : x \in DayMatches /\ x[L] = g)
    IN  /\ last.out.ok
        /\ Len(res) = Cardinality(groups)
        /\ \A g \in groups : \E j \in DOMAIN res :
            /\ res[j][L] = g
            /\ \A m \in MetricColumns : res[j][m] = SumCol(members(g), m)
            /\ res[j].PopSize = SumCol(SelectSeq(GDF, LAMBDA x : x[L] = g), "PopSize")
            /\ \E r \in DayMatches : res[j].Date = r.Date /\ res[j].RepDays = r.RepDays
            /\ res[j][IF last.report THEN "RepDays" ELSE "Date"] = DayValue(last.day)

(* C9 witness: a filled day at a coarse level where one group sums the rows *)
(* of two countries and another group has no row.                           *)
C9_Witness ==
    /\ last.op = "data_from_day" /\ last.fill /\ last.out.ok /\ Truthy(last.day)
    /\ last.geocolumn = "Continent"
    /\ Cardinality({r.Country : r \in DayMatches}) = 2
    /\ \E r \in ResultRows : r.Continent = "K1" /\ r.Confirmed > 1 /\ r.PopSize = 300
    /\ \E r \in ResultRows : r.Continent = "K2" /\ r.Confirmed = 0

(* The countries the resolution rule allows for a raw row: its own name     *)
(* when that names a GeoEntity; else any GeoEntity whose polygon contains   *)
(* its coordinate; else none (the row is dropped).                          *)
AllowedCountries(r) ==
    LET inside == {GDF[i].Country : i \in {j \in DOMAIN GDF :
                        <<r.Long, r.Lat>> \in GDF[j].geometry}}
    IN  IF r.CountryRegion \in cnames THEN {r.CountryRegion}
        ELSE IF inside # {} THEN inside ELSE {NoCountry}

(* C10: the load assigns every raw row whose name is a GeoEntity name that  *)
(* name, every other raw row a GeoEntity whose polygon contains its         *)
(* coordinate, and drops the row when no polygon does; the table's totals   *)
(* are the sums of the rows so assigned, rows sharing a coordinate under    *)
(* different names included.                                                *)
C10_CountryResolution ==
    last.op = "__init__" /\ initHead = 0 =>
        LET raw == RawRows(feed)
        IN  \E asg \in [DOMAIN raw -> cnames \cup {NoCountry}] :
                /\ \A i \in DOMAIN raw : asg[i] \in AllowedCountries(raw[i])
                /\ \A c \in cnames, d \in {raw[i].Date.ord : i \in DOMAIN raw} :
                    LET mine == SelectSeq([i \in DOMAIN raw |-> [row |-> raw[i], to |-> asg[i]]],
                                    LAMBDA x : x.to = c /\ x.row.Date.ord = d)
                        rows == {r \in TableRows : r.Country = c /\ r.Date.ord = d}
                    IN  /\ Cardinality(rows) = IF mine = <<>> THEN 0 ELSE 1
                        /\ \A r \in rows :
                            /\ r.Confirmed = SumCol([i \in DOMAIN mine |-> mine[i].row], "Confirmed")
                            /\ r.Deaths = SumCol([i \in DOMAIN mine |-> mine[i].row], "Deaths")
                /\ \A r \in TableRows : r.Country \in cnames

(* C10 witness: two locations share the coordinate (1, 0) under the names   *)
(* "X" and "B", the entry of that coordinate resolved to "B", and the table *)
(* holds only rows of "B", one of them summing both locations.              *)
C10_Witness ==
    /\ last.op = "__init__" /\ initHead = 0
    /\ \E i \in DOMAIN feed, j \in DOMAIN feed :
        /\ feed[i].CountryRegion = "X" /\ feed[j].CountryRegion = "B"
        /\ feed[i].Long = 1 /\ feed[j].Long = 1
    /\ pick[<<1, 0>>] = "B"
    /\ \E r \in TableRows : r.Country = "B" /\ r.Confirmed = 2
    /\ \A r \in TableRows : r.Country = "B"

(* The positions of the polygons of the last lookup's dict that contain its *)
(* point                                                                    *)
FindHits ==
    {i \in DOMAIN last.gdf : <<last.lon, last.lat>> \in last.gdf[i].geometry}

(* C11: find_country_lon_lat returns the guess when the guess names a       *)
(* polygon of the dict that contains the point, even if a polygon inserted  *)
(* earlier contains it too; otherwise the first polygon in insertion order  *)
(* that contains the point; and the missing value exactly when no polygon   *)
(* contains the point.                                                      *)
C11_FindCountry ==
    last.op = "find_country_lon_lat" =>
        LET guessed == \E i \in FindHits : last.gdf[i].Country = last.guess
        IN  /\ guessed => last.out = last.guess
            /\ ~guessed /\ FindHits # {} =>
                    \E i \in FindHits :
                        /\ last.out = last.gdf[i].Country
                        /\ \A j \in FindHits : i <= j
            /\ last.out = NoCountry <=> FindHits = {}

(* C11 witness: the guess "B" is returned for the point (1, 0) although     *)
(* "A", inserted before it, contains the point as well.                     *)
C11_Witness ==
    /\ last.op = "find_country_lon_lat"
    /\ last.guess = "B" /\ last.out = "B"
    /\ \E i, j \in FindHits :
        i < j /\ last.gdf[i].Country = "A" /\ last.gdf[j].Country = "B"

(* C12: data_from_day (with and without fill, so fill_subdf_geo too),       *)
(* data_from_geocol and add_geom fail with the configuration error          *)
(* (ValueError) and return no table when the requested column is outside    *)
(* GEOCOLS, and raise nothing on account of the column when it is in        *)
(* GEOCOLS: the only failure left is the not-found error of a day that      *)
(* matches no row.                                                          *)
C12_GeoColumnChecked ==
    last.op \in {"data_from_day", "data_from_geocol", "add_geom"} =>
        /\ last.geocolumn \notin GEOCOLS =>
                ~last.out.ok /\ last.out.error = "ValueError" /\ last.out.df = EmptyDF
        /\ last.geocolumn \in GEOCOLS /\ ~last.out.ok =>
                last.op = "data_from_day" /\ last.out.error = "ValueError"
                    /\ (DayMatches = {} \/ ~Truthy(last.day))

(* C13: a persisted Dataset built on a path reads the file back as its      *)
(* table when the file exists and is no older than the staleness window;    *)
(* when the file is absent or older, the table is derived from the feeds    *)
(* and written over the file.  After an update() that re-derived the table  *)
(* because the file was stale, the file is not reported stale again until   *)
(* the window has elapsed.                                                  *)
C13_PersistedLoad ==
    [][/\ pc = "new" /\ last'.op = "__init__" /\ cls = "PersistantGeoCoronaData" =>
            IF disk # NoFile /\ age <= UTime
            THEN cdf' = read_csv(disk) /\ disk' = disk
            ELSE /\ \E uc \in UniqueCoors(RawRows(feed)) :
                        cdf' = load_cdf(feed, uc, initRtime', initHead').df
                 /\ disk' = to_csv(cdf')
       /\ pc = "ready" /\ last'.op = "update" /\ last'.out.ok /\ check_update(disk, age) =>
            ~check_update(disk', age')]_vars

(* The coarse levels of the reference data and the levels nested in them *)
CoarseLevels == {"Continent", "REGION_WB"}

FinerLevels == {"Country", "ADM0_A3", "SubRegion"}

(* The values at level finer of the countries of group g of level coarse *)
NestedIn(coarse, g, finer) ==
    {GDF[i][finer] : i \in {j \in DOMAIN GDF : GDF[j][coarse] = g}}

(* The rows data_from_geocol returns for the groups of level finer nested   *)
(* in the group the last call selected                                      *)
FinerSeries(finer) ==
    LET inside == NestedIn(last.geocolumn, last.select, finer)
        ms == SetToSortedSeq(inside, {p \in inside \X inside : Rank(p[1]) < Rank(p[2])})
    IN  Flatten([i \in DOMAIN ms |->
            data_from_geocol(cdf, ms[i], finer, last.fill).df.rows])

(* The rates of row r are those of its own metrics and population *)
RatesRecomputed(r) ==
    /\ r.LRate = FillNaF(Div(r.Deaths, r.Deaths + r.Recovered))
    /\ r.PrcCont = Div(r.Confirmed + r.Deaths + r.Recovered, r.PopSize)
    /\ r.CO10K = Div(r.Confirmed * 10000, r.PopSize)
    /\ r.DE10K = Div(r.Deaths * 10000, r.PopSize)
    /\ r.RE10K = Div(r.Recovered * 10000, r.PopSize)
    /\ r.AC10K = Div(r.Active * 10000, r.PopSize)

(* C14: for every day and every group of a coarse level, the additive       *)
(* metrics data_from_day (filled) and data_from_geocol return are the sums  *)
(* of the base country rows and equal the sums of the rows the same query   *)
(* returns at each finer level nested in it; the rates of an aggregated row *)
(* are computed from its summed metrics and the summed population of its    *)
(* group.                                                                   *)
C14_AggregationAssociative ==
    /\ last.op = "data_from_day" /\ last.fill /\ last.out.ok
            /\ last.geocolumn \in CoarseLevels =>
        \A r \in ResultRows :
            /\ RatesRecomputed(r)
            /\ r.PopSize = SumCol(SelectSeq(GDF, LAMBDA g :
                                g[last.geocolumn] = r[last.geocolumn]), "PopSize")
            /\ \A m \in MetricColumns :
                /\ r[m] = SumCol(SelectSeq(cdf.rows, LAMBDA x :
                            /\ x[last.geocolumn] = r[last.geocolumn]
                            /\ x.Date = r.Date /\ x.RepDays = r.RepDays), m)
                /\ \A finer \in FinerLevels :
                    r[m] = SumCol(SelectSeq(
                            data_from_day(cdf, last.day, last.report, TRUE, finer).df.rows,
                            LAMBDA x : x[finer] \in
                                NestedIn(last.geocolumn, r[last.geocolumn], finer)), m)
    /\ last.op = "data_from_geocol" /\ ~last.fill /\ last.out.ok
            /\ last.geocolumn \in CoarseLevels =>
        \A r \in ResultRows :
            /\ RatesRecomputed(r)
            /\ r.PopSize = SumCol(SelectSeq(GDF, LAMBDA g :
                                g[last.geocolumn] = last.select), "PopSize")
            /\ \A m \in MetricColumns :
                /\ r[m] = SumCol(SelectSeq(cdf.rows, LAMBDA x :
                            /\ x[last.geocolumn] = last.select
                            /\ x.Date = r.Date /\ x.RepDays = r.RepDays), m)
                /\ \A finer \in FinerLevels :
                    r[m] = SumCol(SelectSeq(FinerSeries(finer), LAMBDA x :
                            x.Date = r.Date /\ x.RepDays = r.RepDays), m)

(* C14 witness: the continent K1 is asked for a day on which both of its    *)
(* countries have cases, and its row sums them.                             *)
C14_Witness ==
    /\ last.op = "data_from_geocol" /\ ~last.fill /\ last.out.ok
    /\ last.geocolumn = "Continent" /\ last.select = "K1"
    /\ \E r \in ResultRows :
        /\ Cardinality({x \in TableRows : x.Continent = "K1" /\ x.Date = r.Date
                                            /\ x.Confirmed > 0}) = 2
        /\ r.Confirmed > 1
        /\ r.PopSize = 300

(* The calls that recompute the table *)
Recomputes == {"update", "update_cdf", "set_recovery_time"}

(* C15: when update(), update_cdf() or set_recovery_time() fails (the feeds *)
(* do not answer, or a stage of the pipeline raises), the caller gets the   *)
(* error and the Dataset's table is what it was before the call; the table  *)
(* changes only in a call that succeeded, and then to a fully derived       *)
(* table.                                                                   *)
C15_FailedRecomputeKeepsTable ==
    [][/\ pc = "ready" /\ last'.op \in Recomputes /\ ~last'.out.ok =>
            cdf' = cdf /\ last'.out.error # ""
       /\ pc = "ready" /\ cdf' # cdf =>
            /\ last'.op \in Recomputes /\ last'.out.ok
            /\ \E uc \in UniqueCoors(RawRows(feed)), r \in RTimes :
                    cdf' = load_cdf(feed, uc, r, 0).df]_vars

(* C15 witness: update_cdf has failed on the feeds and the table, cut to    *)
(* one row at load, is still that row.                                      *)
C15_Witness ==
    /\ last.op = "update_cdf" /\ ~last.out.ok /\ last.out.error = "URLError"
    /\ initHead = 1 /\ Len(cdf.rows) = 1
    /\ cdf = load_cdf(feed, pick, initRtime, initHead).df

====
